---- MODULE Spec2Model ----
(***************************************************************************)
(* Weather_Api_withFrontend: the browser client (class WeatherAPI of       *)
(* src/public/sw.js) and the express router of src/unnamed/part_000.       *)
(*                                                                         *)
(* Strings are sequences of one-character strings.  A fetch issued by the  *)
(* client is identified by the Promise.all that issued it (its attempt     *)
(* number) and its endpoint.                                               *)
(***************************************************************************)
EXTENDS Integers, Sequences, FiniteSets, TLC

VARIABLES
    cityInput,         \* value of the #cityInput text box
    pc,                \* position of the running async handler
    mode,              \* which handler runs: "none", "search", "locate"
    cityFormats,       \* searchWeather: the candidate list
    attempt,           \* number of the Promise.all being awaited (0: none yet)
    calls,             \* calls[n][ep]: state of the fetch of attempt n to endpoint ep
    tried,             \* console.log(`Trying city format: ...`) lines, in order
    failLog,           \* console.log(`Failed with format ...`) lines: the error of each failed attempt
    weatherData,       \* searchWeather local: 0 is null, n is the data of attempt n
    forecastData,      \* searchWeather local: 0 is null, n is the data of attempt n
    lastError,         \* searchWeather local: NoError is null
    loading,           \* #loading is displayed
    errorVisible,      \* #error is displayed
    weatherVisible,    \* #weatherContainer is displayed
    errorMessage,      \* text of #errorMessage
    locationName,      \* attempt whose data fills the current-weather fields (0: initial markup)
    forecastContainer, \* attempt whose data fills #forecastContainer (0: initial markup)
    other,             \* the locals of a second handler invocation, started by another click
    \* the router, serving one request
    apiKey,            \* OPENWEATHER_API_KEY is set
    route,             \* "current" or "forecast"
    query,             \* req.query: city, lat, lon, units
    rpc,               \* position of the request in the router
    upstreamCalls,     \* the urls given to axios.get, in order
    resStatus,         \* HTTP status of the response (0: none yet)
    resError,          \* error text of the response body ("" when success)
    upstreamError,     \* status of the error axios.get threw (-1: none, 0: no response)
    payload,           \* response.data of the upstream
    resData,           \* data of the success body
    \* displayForecast
    forecasts,         \* data.forecast, the list given to groupForecastByDay
    dailyForecasts,    \* the list groupForecastByDay returned
    gpc                \* "data": list received, "shown": forecast displayed

clientVars == <<cityInput, pc, mode, cityFormats, attempt, calls, tried, failLog,
                weatherData, forecastData, lastError, loading, errorVisible,
                weatherVisible, errorMessage, locationName, forecastContainer,
                other>>

routerVars == <<apiKey, route, query, rpc, upstreamCalls, resStatus, resError,
                upstreamError, payload, resData>>

forecastVars == <<forecasts, dailyForecasts, gpc>>

vars == <<clientVars, routerVars, forecastVars>>

(***************************************************************************)
(* Bounds of the model.                                                    *)
(***************************************************************************)
MaxCityLen == 5

\* searchWeather builds at most three candidates (city, city,India, city,IN)
MaxFormats == 3

Chars == {"a", " ", ","}

Endpoints == {"current", "forecast"}

\* what a failed fetch can be: the HTTP status classes of the router and a
\* transport failure (fetch's TypeError)
FailClasses == {"not_found", "unauthorized", "rate_limited", "other", "network"}

NoError == [attempt |-> 0, ep |-> "none", class |-> "none"]

RECURSIVE StringsUpTo(_)
StringsUpTo(n) ==
    IF n = 0 THEN {<<>>}
    ELSE LET shorter == StringsUpTo(n - 1)
         IN  shorter \cup {Append(s, c) : s \in {t \in shorter : Len(t) = n - 1}, c \in Chars}

\* the texts typed in the search box in the runs of the whole client
Cities == {<<>>, <<" ">>, <<"a">>, <<"a", " ", "a">>, <<"a", ",", "a">>,
           <<"a", " ", "a", " ", "a">>}

(***************************************************************************)
(* String helpers of JavaScript used by searchWeather.                     *)
(***************************************************************************)
RECURSIVE TrimStart(_)
TrimStart(s) ==
    IF s # <<>> /\ Head(s) = " " THEN TrimStart(Tail(s)) ELSE s

RECURSIVE TrimEnd(_)
TrimEnd(s) ==
    IF s # <<>> /\ s[Len(s)] = " " THEN TrimEnd(SubSeq(s, 1, Len(s) - 1)) ELSE s

Trim(s) == TrimEnd(TrimStart(s))

Includes(s, c) == \E i \in 1..Len(s) : s[i] = c

\* s.split(sep): the pieces between the separators, empty pieces included
RECURSIVE Split(_, _)
Split(s, sep) ==
    IF ~Includes(s, sep) THEN <<s>>
    ELSE LET i == CHOOSE j \in 1..Len(s) : s[j] = sep /\ \A k \in 1..(j - 1) : s[k] # sep
         IN  <<SubSeq(s, 1, i - 1)>> \o Split(SubSeq(s, i + 1, Len(s)), sep)

SuffixIndia == <<",", "I", "n", "d", "i", "a">>

SuffixIN == <<",", "I", "N">>

CityFormatsSwapped(city) ==
    IF ~Includes(city, ",") /\ Len(Split(city, " ")) <= 2
    THEN <<city, city \o SuffixIN, city \o SuffixIndia>>
    ELSE <<city>>

CityFormats(city) ==
    IF ~Includes(city, ",") /\ Len(Split(city, " ")) <= 2
    THEN <<city, city \o SuffixIndia, city \o SuffixIN>>
    ELSE <<city>>

(***************************************************************************)
(* Error messages.                                                         *)
(***************************************************************************)
\* the message of the Error thrown by getCurrentWeather / getForecast
FetchMessage(class) ==
    CASE class = "not_found"    -> "HTTP error! status: 404"
      [] class = "unauthorized" -> "HTTP error! status: 401"
      [] class = "rate_limited" -> "HTTP error! status: 429"
      [] class = "other"        -> "HTTP error! status: 500"
      [] class = "network"      -> "Cannot connect to weather service. Please check if the server is running."

\* GeolocationPositionError codes
GeoCodes == {"PERMISSION_DENIED", "POSITION_UNAVAILABLE", "TIMEOUT"}

\* the catch of getCurrentLocation.  An Error thrown by a fetch has no code
\* and no PERMISSION_DENIED property: undefined === undefined is true.
LocateMessage(code) ==
    CASE code = "PERMISSION_DENIED"    -> "Location access denied. Please allow location access and try again."
      [] code = "POSITION_UNAVAILABLE" -> "Location information is unavailable."
      [] code = "TIMEOUT"              -> "Location request timed out."
      [] code = "undefined"            -> "Location access denied. Please allow location access and try again."

(***************************************************************************)
(* The panels.                                                             *)
(***************************************************************************)
showLoading ==
    /\ loading' = TRUE
    /\ errorVisible' = FALSE
    /\ weatherVisible' = FALSE
    /\ UNCHANGED errorMessage

showError(message) ==
    /\ loading' = FALSE
    /\ errorVisible' = TRUE
    /\ errorMessage' = message
    /\ weatherVisible' = FALSE

hideLoadingShowWeatherContainerKeepError ==
    /\ loading' = FALSE
    /\ weatherVisible' = TRUE
    /\ UNCHANGED <<errorVisible, errorMessage>>

\* the tail of displayCurrentWeather: hideLoading(); showWeatherContainer()
hideLoadingShowWeatherContainer ==
    /\ loading' = FALSE
    /\ weatherVisible' = TRUE
    /\ errorVisible' = FALSE
    /\ UNCHANGED errorMessage

NoCalls == [n \in 1..MaxFormats |-> [ep \in Endpoints |-> "none"]]

BothInFlight == [ep \in Endpoints |-> "inflight"]

Other(ep) == IF ep = "current" THEN "forecast" ELSE "current"

(***************************************************************************)
(* The router: query parameters.  A parameter is absent (undefined), the   *)
(* empty string, a text that parseFloat cannot read, the text of the       *)
(* number v, or the text of the number v followed by other characters      *)
(* ("45abc"), of which parseFloat reads v.                                 *)
(***************************************************************************)
Absent == [t |-> "absent", v |-> 0]

Empty == [t |-> "empty", v |-> 0]

Text == [t |-> "text", v |-> 0]

Num(n) == [t |-> "num", v |-> n]

Prefixed(n) == [t |-> "prefixed", v |-> n]

LatInputs == {Absent, Empty, Text, Prefixed(45)} \cup {Num(n) : n \in {-91, -90, 0, 90, 91}}

LonInputs == {Absent, Text, Prefixed(181)} \cup {Num(n) : n \in {-181, -180, 0, 180, 181}}

CityInputs == {Absent, Empty, Text}

UnitsInputs == {"default", "imperial"}

\* what axios.get can fail with: the status of error.response, 0 when the
\* error has no response (transport failure)
UpstreamErrors == {404, 401, 429, 500, 0}

\* if (x): undefined and the empty string are falsy, any other string truthy
Truthy(p) == p.t \in {"text", "num", "prefixed"}

\* isNaN(parseFloat(x))
IsNaN(p) == p.t \notin {"num", "prefixed"}

validateCoordinatesLatOnly(lat, lon) ==
    /\ ~IsNaN(lat)
    /\ ~IsNaN(lon)
    /\ lat.v >= -90 /\ lat.v <= 90

validateCoordinates(lat, lon) ==
    /\ ~IsNaN(lat)
    /\ ~IsNaN(lon)
    /\ lat.v >= -90 /\ lat.v <= 90
    /\ lon.v >= -180 /\ lon.v <= 180

\* no upstream response, no success body
NoPayload == [none |-> TRUE]

(***************************************************************************)
(* Upstream payloads.  Temperatures, wind speed, coordinates and the       *)
(* probability of precipitation are fixed-point numbers counted in tenths  *)
(* (-25 is -2.5); visibility is in metres; the other fields are integers.  *)
(***************************************************************************)
\* response.data of /weather
WeatherPayloads ==
    [temp : {-26, -25, -24, -5, -4, 0, 4, 5, 25, 26},
     feels_like : {-15, 15, 20},
     humidity : {65},
     pressure : {1013},
     speed : {25, 30},
     deg : {270},
     visibility : {9500, 10000},
     clouds : {40},
     lat : {285}]

ForecastItems ==
    [dt_txt : {12, 36}, temp : {-25, 14}, feels_like : {-15}, humidity : {65},
     pressure : {1013}, speed : {25}, deg : {270}, clouds : {40}, pop : {0, 5}]

\* response.data.list of /forecast
ForecastPayloads == {<<>>} \cup {<<i>> : i \in ForecastItems}

MathRoundHalfAway(x) ==
    IF x >= 0 THEN (x + 5) \div 10 ELSE -((-x + 5) \div 10)

\* Math.round of a number given in tenths: the integer nearest to it, a
\* half rounded up (towards +Infinity); \div rounds down
MathRound(x) == (x + 5) \div 10

formatWeatherData(data) ==
    [lat         |-> data.lat,
     temperature |-> MathRound(data.temp),
     feelsLike   |-> MathRound(data.feels_like),
     humidity    |-> data.humidity,
     pressure    |-> data.pressure,
     windSpeed   |-> data.speed,
     windDirection |-> data.deg,
     \* data.visibility / 1000, in tenths of a kilometre
     visibility  |-> (data.visibility * 10) \div 1000,
     cloudiness  |-> data.clouds]

formatForecastData(list) ==
    [i \in 1..Len(list) |->
        [datetime    |-> list[i].dt_txt,
         temperature |-> MathRound(list[i].temp),
         feelsLike   |-> MathRound(list[i].feels_like),
         humidity    |-> list[i].humidity,
         pressure    |-> list[i].pressure,
         windSpeed   |-> list[i].speed,
         windDirection |-> list[i].deg,
         cloudiness  |-> list[i].clouds,
         precipitationProbability |-> list[i].pop * 100]]

InitRouterIdle ==
    /\ apiKey = TRUE
    /\ route = "current"
    /\ query = [city |-> Absent, lat |-> Absent, lon |-> Absent, units |-> "default"]
    /\ rpc = "idle"
    /\ upstreamCalls = <<>>
    /\ resStatus = 0
    /\ resError = ""
    /\ upstreamError = -1
    /\ payload = NoPayload
    /\ resData = NoPayload

InitForecastIdle ==
    /\ forecasts = <<>>
    /\ dailyForecasts = <<>>
    /\ gpc = "idle"

\* the locals of an invocation that has not started
IdleLocals ==
    [pc |-> "idle", mode |-> "none", cityFormats |-> <<>>, attempt |-> 0,
     calls |-> NoCalls, tried |-> <<>>, failLog |-> <<>>, weatherData |-> 0,
     forecastData |-> 0, lastError |-> NoError]

InitClient ==
    /\ other = IdleLocals
    /\ pc = "idle"
    /\ mode = "none"
    /\ cityFormats = <<>>
    /\ attempt = 0
    /\ calls = NoCalls
    /\ tried = <<>>
    /\ failLog = <<>>
    /\ weatherData = 0
    /\ forecastData = 0
    /\ lastError = NoError
    /\ loading = FALSE
    /\ errorVisible = FALSE
    /\ weatherVisible = FALSE
    /\ errorMessage = ""
    /\ locationName = 0
    /\ forecastContainer = 0

Init ==
    /\ cityInput \in Cities
    /\ InitClient
    /\ InitRouterIdle
    /\ InitForecastIdle

(***************************************************************************)
(* searchWeather, up to its first await.                                   *)
(***************************************************************************)
SearchWeather ==
    /\ pc = "idle"
    /\ mode' = "search"
    /\ LET city == Trim(cityInput)
       IN  IF city = <<>>
           THEN /\ showError("Please enter a city name")
                /\ pc' = "done"
                /\ UNCHANGED <<cityFormats, attempt, calls, tried>>
           ELSE /\ cityFormats' = CityFormats(city)
                /\ showLoading
                /\ attempt' = 1
                /\ tried' = <<cityFormats'[1]>>
                /\ calls' = [calls EXCEPT ![1] = BothInFlight]
                /\ pc' = "await"
    /\ UNCHANGED <<cityInput, failLog, weatherData, forecastData, lastError,
                   locationName, forecastContainer>>
    /\ UNCHANGED <<other, routerVars, forecastVars>>

(***************************************************************************)
(* getCurrentLocation.                                                     *)
(***************************************************************************)
GetCurrentLocation ==
    /\ pc = "idle"
    /\ mode' = "locate"
    /\ \E supported \in BOOLEAN :
          IF ~supported
          THEN /\ showError("Geolocation is not supported by this browser")
               /\ pc' = "done"
          ELSE /\ showLoading
               /\ pc' = "position"
    /\ UNCHANGED <<cityInput, cityFormats, attempt, calls, tried, failLog,
                   weatherData, forecastData, lastError, locationName,
                   forecastContainer>>
    /\ UNCHANGED <<other, routerVars, forecastVars>>

PositionResolved ==
    /\ pc = "position"
    /\ attempt' = 1
    /\ calls' = [calls EXCEPT ![1] = BothInFlight]
    /\ pc' = "await"
    /\ UNCHANGED <<cityInput, mode, cityFormats, tried, failLog, weatherData,
                   forecastData, lastError, loading, errorVisible,
                   weatherVisible, errorMessage, locationName, forecastContainer>>
    /\ UNCHANGED <<other, routerVars, forecastVars>>

PositionRejected(code) ==
    /\ pc = "position"
    /\ showError(LocateMessage(code))
    /\ pc' = "done"
    /\ UNCHANGED <<cityInput, mode, cityFormats, attempt, calls, tried, failLog,
                   weatherData, forecastData, lastError, locationName,
                   forecastContainer>>
    /\ UNCHANGED <<other, routerVars, forecastVars>>

(***************************************************************************)
(* The continuation of searchWeather / getCurrentLocation after the        *)
(* awaited Promise.all settles.  Promise.all rejects with the first        *)
(* rejection and fulfils when both fetches have; the continuation runs in  *)
(* the same turn of the event loop as the fetch that settled it.           *)
(***************************************************************************)
\* the Promise.all of attempt n is the one being awaited and has not settled
Awaited(n) == pc = "await" /\ attempt = n

ResolveNoBreak(n) ==
    IF mode = "search"
    THEN /\ weatherData' = n
         /\ forecastData' = n
         /\ IF n < Len(cityFormats)
            THEN /\ attempt' = n + 1
                 /\ tried' = Append(tried, cityFormats[n + 1])
                 /\ pc' = "await"
            ELSE /\ pc' = "done"
                 /\ UNCHANGED <<attempt, tried>>
    ELSE /\ pc' = "done"
         /\ UNCHANGED <<weatherData, forecastData, attempt, tried>>

\* both fetches of attempt n fulfilled: results[0], results[1], break
Resolve(n) ==
    /\ pc' = "done"
    /\ UNCHANGED <<attempt, tried>>
    /\ IF mode = "search"
       THEN /\ weatherData' = n
            /\ forecastData' = n
       ELSE UNCHANGED <<weatherData, forecastData>>

\* the calls after a step that settles the fetch (n, ep) as st: a new attempt
\* of the loop issues getCurrentWeather and getForecast for the next format
CallsAfter(n, ep, st) ==
    IF attempt' # attempt
    THEN [calls EXCEPT ![n][ep] = st, ![attempt'] = BothInFlight]
    ELSE [calls EXCEPT ![n][ep] = st]

RejectKeepFirst(n, ep, class) ==
    IF mode = "search"
    THEN /\ lastError' = IF lastError = NoError
                         THEN [attempt |-> n, ep |-> ep, class |-> class]
                         ELSE lastError
         /\ failLog' = Append(failLog, [attempt |-> n, ep |-> ep, class |-> class])
         /\ IF n < Len(cityFormats)
            THEN /\ attempt' = n + 1
                 /\ tried' = Append(tried, cityFormats[n + 1])
                 /\ UNCHANGED <<pc, loading, errorVisible, weatherVisible, errorMessage>>
            ELSE /\ showError(FetchMessage(lastError'.class))
                 /\ pc' = "done"
                 /\ UNCHANGED <<attempt, tried>>
    ELSE /\ showError(LocateMessage("undefined"))
         /\ pc' = "done"
         /\ UNCHANGED <<lastError, failLog, attempt, tried>>

\* a fetch of the awaited attempt n rejected with an error of the given class:
\* searchWeather's inner catch (lastError = error, next format) and, after the
\* last format, throw lastError into the outer catch; getCurrentLocation's catch
Reject(n, ep, class) ==
    IF mode = "search"
    THEN /\ lastError' = [attempt |-> n, ep |-> ep, class |-> class]
         /\ failLog' = Append(failLog, lastError')
         /\ IF n < Len(cityFormats)
            THEN /\ attempt' = n + 1
                 /\ tried' = Append(tried, cityFormats[n + 1])
                 /\ UNCHANGED <<pc, loading, errorVisible, weatherVisible, errorMessage>>
            ELSE /\ showError(FetchMessage(lastError'.class))
                 /\ pc' = "done"
                 /\ UNCHANGED <<attempt, tried>>
    ELSE /\ showError(LocateMessage("undefined"))
         /\ pc' = "done"
         /\ UNCHANGED <<lastError, failLog, attempt, tried>>

(***************************************************************************)
(* getCurrentWeather and getForecast: the response of one fetch.           *)
(***************************************************************************)
\* response.ok and data.success: displayCurrentWeather(data.data); return
GetCurrentWeatherOk(n) ==
    /\ calls[n]["current"] = "inflight"
    /\ locationName' = n
    /\ hideLoadingShowWeatherContainer
    /\ IF Awaited(n) /\ calls[n]["forecast"] = "ok"
       THEN Resolve(n)
       ELSE UNCHANGED <<pc, attempt, tried, weatherData, forecastData>>
    /\ calls' = CallsAfter(n, "current", "ok")
    /\ UNCHANGED <<cityInput, mode, cityFormats, failLog, lastError, forecastContainer>>
    /\ UNCHANGED <<other, routerVars, forecastVars>>

\* response.ok and data.success: displayForecast(data.data); return
GetForecastOk(n) ==
    /\ calls[n]["forecast"] = "inflight"
    /\ forecastContainer' = n
    /\ IF Awaited(n) /\ calls[n]["current"] = "ok"
       THEN Resolve(n)
       ELSE UNCHANGED <<pc, attempt, tried, weatherData, forecastData>>
    /\ calls' = CallsAfter(n, "forecast", "ok")
    /\ UNCHANGED <<cityInput, mode, cityFormats, failLog, lastError, locationName,
                   loading, errorVisible, weatherVisible, errorMessage>>
    /\ UNCHANGED <<other, routerVars, forecastVars>>

\* !response.ok, !data.success or a transport failure: the fetch throws
FetchFail(n, ep, class) ==
    /\ calls[n][ep] = "inflight"
    /\ IF Awaited(n)
       THEN Reject(n, ep, class)
       ELSE UNCHANGED <<pc, attempt, tried, failLog, lastError, loading,
                        errorVisible, weatherVisible, errorMessage>>
    /\ calls' = CallsAfter(n, ep, "failed")
    /\ UNCHANGED <<cityInput, mode, cityFormats, weatherData, forecastData,
                   locationName, forecastContainer>>
    /\ UNCHANGED <<other, routerVars, forecastVars>>

GetCurrentWeatherFail(n, class) == FetchFail(n, "current", class)

GetForecastFail(n, class) == FetchFail(n, "forecast", class)

Next ==
    \/ SearchWeather
    \/ GetCurrentLocation
    \/ PositionResolved
    \/ \E code \in GeoCodes : PositionRejected(code)
    \/ \E n \in 1..MaxFormats : GetCurrentWeatherOk(n)
    \/ \E n \in 1..MaxFormats : GetForecastOk(n)
    \/ \E n \in 1..MaxFormats, class \in FailClasses : GetCurrentWeatherFail(n, class)
    \/ \E n \in 1..MaxFormats, class \in FailClasses : GetForecastFail(n, class)

Spec == Init /\ [][Next]_vars

(***************************************************************************)
(* The candidate list alone: every text of up to MaxCityLen characters in  *)
(* the search box, and the click on the search button.                     *)
(***************************************************************************)
InitFormats ==
    /\ cityInput \in StringsUpTo(MaxCityLen)
    /\ InitClient
    /\ InitRouterIdle
    /\ InitForecastIdle

NextFormats == SearchWeather

SpecFormats == InitFormats /\ [][NextFormats]_vars

(***************************************************************************)
(* The router of src/unnamed/part_000 serving one request to /current or   *)
(* /forecast.                                                              *)
(***************************************************************************)
InitClientIdle ==
    /\ cityInput = <<>>
    /\ InitClient

InitRouter ==
    /\ apiKey \in BOOLEAN
    /\ route \in Endpoints
    /\ query \in [city : CityInputs, lat : LatInputs, lon : LonInputs, units : UnitsInputs]
    /\ rpc = "received"
    /\ upstreamCalls = <<>>
    /\ resStatus = 0
    /\ resError = ""
    /\ upstreamError = -1
    /\ payload = NoPayload
    /\ resData = NoPayload
    /\ InitClientIdle
    /\ InitForecastIdle

Respond(status, error) ==
    /\ resStatus' = status
    /\ resError' = error
    /\ rpc' = "responded"

\* the middleware of both routes
checkApiKey ==
    /\ rpc = "received"
    /\ IF ~apiKey
       THEN Respond(500, "OpenWeatherMap API key not configured")
       ELSE /\ rpc' = "handler"
            /\ UNCHANGED <<resStatus, resError>>
    /\ UNCHANGED <<apiKey, route, query, upstreamCalls, upstreamError, payload, resData>>
    /\ UNCHANGED <<clientVars, forecastVars>>

\* units = 'metric' when the parameter is absent
Units == IF query.units = "default" THEN "metric" ELSE query.units

\* the url handed to axios.get
Url(endpoint, q, lat, lon) ==
    [endpoint |-> endpoint, units |-> Units, q |-> q, lat |-> lat, lon |-> lon]

\* the try block of a route up to await axios.get(url)
Handler(endpoint) ==
    /\ rpc = "handler"
    /\ route = endpoint
    /\ IF Truthy(query.city)
       THEN /\ upstreamCalls' = Append(upstreamCalls, Url(endpoint, query.city, Absent, Absent))
            /\ rpc' = "upstream"
            /\ UNCHANGED <<resStatus, resError>>
       ELSE IF Truthy(query.lat) /\ Truthy(query.lon)
       THEN IF ~validateCoordinates(query.lat, query.lon)
            THEN /\ Respond(400, "Invalid coordinates. Latitude must be between -90 and 90, longitude between -180 and 180.")
                 /\ UNCHANGED upstreamCalls
            ELSE /\ upstreamCalls' = Append(upstreamCalls, Url(endpoint, Absent, query.lat, query.lon))
                 /\ rpc' = "upstream"
                 /\ UNCHANGED <<resStatus, resError>>
       ELSE /\ Respond(400, "Please provide either city name or coordinates (lat, lon)")
            /\ UNCHANGED upstreamCalls
    /\ UNCHANGED <<apiKey, route, query, upstreamError, payload, resData>>
    /\ UNCHANGED <<clientVars, forecastVars>>

CurrentHandler == Handler("current")

ForecastHandler == Handler("forecast")

\* axios.get fulfilled: format response.data, res.json({success: true, data})
UpstreamOk ==
    /\ rpc = "upstream"
    /\ \E data \in (IF route = "current" THEN WeatherPayloads ELSE ForecastPayloads) :
          /\ payload' = data
          /\ resData' = IF route = "current"
                        THEN formatWeatherData(data)
                        ELSE formatForecastData(data)
    /\ Respond(200, "")
    /\ UNCHANGED <<apiKey, route, query, upstreamCalls, upstreamError>>
    /\ UNCHANGED <<clientVars, forecastVars>>

CurrentCatchRetry(status) ==
    /\ rpc = "upstream"
    /\ route = "current"
    /\ IF status = 404 /\ Len(upstreamCalls) < 2
       THEN /\ upstreamCalls' = Append(upstreamCalls, upstreamCalls[1])
            /\ UNCHANGED <<rpc, resStatus, resError>>
       ELSE /\ Respond(500, "Failed to fetch weather data")
            /\ UNCHANGED upstreamCalls
    /\ upstreamError' = status
    /\ UNCHANGED <<apiKey, route, query, payload, resData>>
    /\ UNCHANGED <<clientVars, forecastVars>>

\* the catch of router.get('/current')
CurrentCatch(status) ==
    /\ rpc = "upstream"
    /\ route = "current"
    /\ CASE status = 404 -> Respond(404, "Location not found. Please check the city name and try again.")
         [] status = 401 -> Respond(401, "API key is invalid or not activated yet. Please check your OpenWeatherMap API key.")
         [] status = 429 -> Respond(429, "API rate limit exceeded. Please try again later.")
         [] OTHER        -> Respond(500, "Failed to fetch weather data")
    /\ upstreamError' = status
    /\ UNCHANGED <<apiKey, route, query, upstreamCalls, payload, resData>>
    /\ UNCHANGED <<clientVars, forecastVars>>

\* the catch of router.get('/forecast')
ForecastCatch(status) ==
    /\ rpc = "upstream"
    /\ route = "forecast"
    /\ CASE status = 404 -> Respond(404, "Location not found")
         [] status = 401 -> Respond(401, "Invalid API key")
         [] OTHER        -> Respond(500, "Failed to fetch forecast data")
    /\ upstreamError' = status
    /\ UNCHANGED <<apiKey, route, query, upstreamCalls, payload, resData>>
    /\ UNCHANGED <<clientVars, forecastVars>>

NextRouter ==
    \/ checkApiKey
    \/ CurrentHandler
    \/ ForecastHandler
    \/ UpstreamOk
    \/ \E status \in UpstreamErrors : CurrentCatch(status)
    \/ \E status \in UpstreamErrors : ForecastCatch(status)

SpecRouter == InitRouter /\ [][NextRouter]_vars

\* the request carries coordinates and no city, and the coordinates are a
\* latitude in [-90, 90] and a longitude in [-180, 180]
CoordinateInput ==
    /\ query.city \in {Absent, Empty}
    /\ query.lat.t = "num" /\ query.lat.v \in -90..90
    /\ query.lon.t = "num" /\ query.lon.v \in -180..180

\* C7: a request with coordinates that reaches a route issues exactly one
\* upstream call, with these coordinates and no city, whatever the outcome.
C7_OneUpstreamCall ==
    (apiKey /\ CoordinateInput) =>
        /\ Len(upstreamCalls) <= 1
        /\ rpc \in {"upstream", "responded"} =>
               /\ Len(upstreamCalls) = 1
               /\ upstreamCalls[1] = [endpoint |-> route, units |-> Units, q |-> Absent,
                                      lat |-> query.lat, lon |-> query.lon]

C7_Witness ==
    /\ apiKey
    /\ CoordinateInput
    /\ rpc = "responded"
    /\ resStatus = 404
    /\ Len(upstreamCalls) = 1

\* the class of an HTTP status: of the upstream's error, of the response
StatusClass(status) ==
    CASE status = 404 -> "not_found"
      [] status = 401 -> "unauthorized"
      [] status = 429 -> "rate_limited"
      [] OTHER        -> "other"

\* C11: a response to a request whose upstream call failed has the status
\* class of the upstream error, on /current and on /forecast: 404 for
\* not found, 401 for unauthorized, 429 for rate limited, 500 for the rest.
C11_FailureCarriesUpstreamClass ==
    (rpc = "responded" /\ upstreamError # -1) =>
        /\ resStatus \in {404, 401, 429, 500}
        /\ StatusClass(resStatus) = StatusClass(upstreamError)
        /\ resError # ""

\* C12 as stated: temperature and feelsLike are the raw values rounded half
\* away from zero (-2.5 gives -3, 2.5 gives 3).
C12_RoundHalfAwayFromZero ==
    (rpc = "responded" /\ resStatus = 200 /\ route = "current") =>
        /\ resData.temperature =
               (IF payload.temp >= 0 THEN (payload.temp + 5) \div 10
                                     ELSE -((5 - payload.temp) \div 10))
        /\ resData.feelsLike =
               (IF payload.feels_like >= 0 THEN (payload.feels_like + 5) \div 10
                                           ELSE -((5 - payload.feels_like) \div 10))

\* n is the integer nearest to the number of x tenths, the upper one when
\* x is half way between two integers
NearestHalfUp(n, x) == 10 * n - 5 <= x /\ x < 10 * n + 5

\* C12 amended: temperature and feelsLike are the raw values rounded to the
\* nearest integer, a half rounded up (-2.5 gives -2, 2.5 gives 3), and no
\* other field is rounded: each is the raw value, visibility the raw
\* number of metres in kilometres.
C12_RoundHalfUp ==
    (rpc = "responded" /\ resStatus = 200 /\ route = "current") =>
        /\ NearestHalfUp(resData.temperature, payload.temp)
        /\ NearestHalfUp(resData.feelsLike, payload.feels_like)
        /\ resData.humidity = payload.humidity
        /\ resData.pressure = payload.pressure
        /\ resData.windSpeed = payload.speed
        /\ resData.windDirection = payload.deg
        /\ resData.cloudiness = payload.clouds
        /\ resData.lat = payload.lat
        /\ resData.visibility * 1000 = payload.visibility * 10

C12_Witness ==
    /\ rpc = "responded"
    /\ resStatus = 200
    /\ route = "current"
    /\ payload.temp = -25
    /\ resData.temperature = -2
    /\ payload.feels_like = 15
    /\ resData.feelsLike = 2
    /\ payload.speed = 25
    /\ resData.windSpeed = 25

\* a coordinate parameter that is missing, not a number, or outside lo..hi
BadCoordinate(p, lo, hi) ==
    \/ p.t \in {"absent", "empty", "text"}
    \/ p.v < lo
    \/ p.v > hi

NoCity == query.city \in {Absent, Empty}

MaxDays == 5

\* the days of the long lists are 0..MaxDay
MaxDay == 5

\* the length of the short lists
MaxSamples == 3

Sample(day, hour, temp) == [datetime |-> day * 24 + hour, temperature |-> temp]

\* samples around the noon window, two days, three temperatures
WindowSamples == {Sample(d, h, t) : d \in {0, 1}, h \in {10, 11, 13, 14}, t \in {-1, 0, 2}}

\* one sample a day, at 09:00
DaySamples == {Sample(d, 9, d) : d \in 0..MaxDay}

\* the lists of k samples of S
ListsOf(S, k) == [1..k -> S]

\* new Date(datetime).toDateString(): the calendar day of the local time
DayKey(datetime) == datetime \div 24

\* new Date(datetime).getHours()
GetHours(datetime) == datetime % 24

\* the keys of dailyMap in insertion order: a key is inserted when a sample
\* of a day not seen before is met
RECURSIVE MapKeys(_)
MapKeys(list) ==
    IF list = <<>> THEN <<>>
    ELSE LET before == MapKeys(SubSeq(list, 1, Len(list) - 1))
             key == DayKey(list[Len(list)].datetime)
         IN  IF \E i \in 1..Len(before) : before[i] = key
             THEN before
             ELSE Append(before, key)

\* dailyMap.get(day): the samples of the day, in list order
DayForecasts(list, day) == SelectSeq(list, LAMBDA f : DayKey(f.datetime) = day)

AroundNoon(f) == GetHours(f.datetime) >= 11 /\ GetHours(f.datetime) <= 13

SelectedForecastNoonOnly(dayForecasts) ==
    IF \E i \in 1..Len(dayForecasts) : GetHours(dayForecasts[i].datetime) = 12
    THEN dayForecasts[CHOOSE i \in 1..Len(dayForecasts) :
                          /\ GetHours(dayForecasts[i].datetime) = 12
                          /\ \A j \in 1..(i - 1) : GetHours(dayForecasts[j].datetime) # 12]
    ELSE dayForecasts[1]

\* dayForecasts.find(around noon) || dayForecasts[0]
SelectedForecast(dayForecasts) ==
    IF \E i \in 1..Len(dayForecasts) : AroundNoon(dayForecasts[i])
    THEN dayForecasts[CHOOSE i \in 1..Len(dayForecasts) :
                          /\ AroundNoon(dayForecasts[i])
                          /\ \A j \in 1..(i - 1) : ~AroundNoon(dayForecasts[j])]
    ELSE dayForecasts[1]

\* dayForecasts.map(f => f.temperature)
Temps(dayForecasts) == {dayForecasts[i].temperature : i \in 1..Len(dayForecasts)}

MathMin(S) == CHOOSE x \in S : \A y \in S : x <= y

MathMax(S) == CHOOSE x \in S : \A y \in S : x >= y

DailyForecastOfSelected(day, dayForecasts) ==
    LET selectedForecast == SelectedForecast(dayForecasts)
    IN  [datetime    |-> selectedForecast.datetime,
         temperature |-> selectedForecast.temperature,
         minTemp     |-> selectedForecast.temperature,
         maxTemp     |-> selectedForecast.temperature,
         day         |-> day]

\* the entry pushed for a day: {...selectedForecast, minTemp, maxTemp, day}
DailyForecast(day, dayForecasts) ==
    LET selectedForecast == SelectedForecast(dayForecasts)
    IN  [datetime    |-> selectedForecast.datetime,
         temperature |-> selectedForecast.temperature,
         minTemp     |-> MathMin(Temps(dayForecasts)),
         maxTemp     |-> MathMax(Temps(dayForecasts)),
         day         |-> day]

\* dailyForecasts.slice(0, 5)
Slice(list, n) == SubSeq(list, 1, IF Len(list) < n THEN Len(list) ELSE n)

SliceLast(list, n) == SubSeq(list, IF Len(list) < n THEN 1 ELSE Len(list) - n + 1, Len(list))

TruncateLast(list) == SliceLast(list, MaxDays)

\* return dailyForecasts.slice(0, 5)
Truncate(list) == Slice(list, MaxDays)

groupForecastByDay(list) ==
    LET keys == MapKeys(list)
        all == [i \in 1..Len(keys) |-> DailyForecast(keys[i], DayForecasts(list, keys[i]))]
    IN  Truncate(all)

InitForecast ==
    /\ \/ \E k \in 0..MaxSamples : forecasts \in ListsOf(WindowSamples, k)
       \/ \E k \in 1..(MaxDays + 1) : forecasts \in ListsOf(DaySamples, k)
    /\ dailyForecasts = <<>>
    /\ gpc = "data"
    /\ InitClientIdle
    /\ InitRouterIdle

\* displayForecast(data): the list of days shown is groupForecastByDay(data.forecast)
DisplayForecast ==
    /\ gpc = "data"
    /\ dailyForecasts' = groupForecastByDay(forecasts)
    /\ gpc' = "shown"
    /\ UNCHANGED forecasts
    /\ UNCHANGED <<clientVars, routerVars>>

NextForecast == DisplayForecast

SpecForecast == InitForecast /\ [][NextForecast]_vars

(***************************************************************************)
(* Properties of groupForecastByDay.                                       *)
(***************************************************************************)
\* positions in the input of the samples of a day
Positions(day) == {i \in 1..Len(forecasts) : forecasts[i].datetime \div 24 = day}

NoonPositions(day) == {i \in Positions(day) : (forecasts[i].datetime % 24) \in 11..13}

Least(S) == CHOOSE x \in S : \A y \in S : x <= y

\* C8: the representative of a day is the first sample of the day, in list
\* order, whose hour is in 11..13 when the day has one, and else the first
\* sample of the day in list order.
C8_Representative ==
    gpc = "shown" =>
        \A k \in 1..Len(dailyForecasts) :
            LET day == dailyForecasts[k].day
                rep == IF NoonPositions(day) # {}
                       THEN forecasts[Least(NoonPositions(day))]
                       ELSE forecasts[Least(Positions(day))]
            IN  /\ Positions(day) # {}
                /\ dailyForecasts[k].datetime = rep.datetime
                /\ dailyForecasts[k].temperature = rep.temperature

\* a day with a sample at 13:00 after one at 10:00, and a day with none in
\* the window whose first sample is not its earliest
C8_Witness ==
    /\ gpc = "shown"
    /\ Len(forecasts) = 3
    /\ Len(dailyForecasts) = 1
    /\ forecasts[1].datetime % 24 = 10
    /\ forecasts[2].datetime % 24 = 14
    /\ forecasts[3].datetime % 24 = 13
    /\ dailyForecasts[1].datetime = forecasts[3].datetime

\* C9: minTemp and maxTemp of a day are the least and the greatest
\* temperature over all samples of the day, they enclose the temperature of
\* the representative, and they are equal for a day of one sample.
C9_MinMax ==
    gpc = "shown" =>
        \A k \in 1..Len(dailyForecasts) :
            LET d == dailyForecasts[k]
                ts == {forecasts[i].temperature : i \in Positions(d.day)}
            IN  /\ d.minTemp \in ts
                /\ d.maxTemp \in ts
                /\ \A t \in ts : d.minTemp <= t /\ t <= d.maxTemp
                /\ d.minTemp <= d.temperature
                /\ d.temperature <= d.maxTemp
                /\ Cardinality(Positions(d.day)) = 1 => d.minTemp = d.maxTemp

C9_Witness ==
    /\ gpc = "shown"
    /\ Len(dailyForecasts) = 1
    /\ Len(forecasts) = 3
    /\ dailyForecasts[1].minTemp < dailyForecasts[1].temperature
    /\ dailyForecasts[1].temperature < dailyForecasts[1].maxTemp

DistinctDays == {forecasts[i].datetime \div 24 : i \in 1..Len(forecasts)}

FirstPosition(day) == Least(Positions(day))

\* C10: the output has min(5, number of distinct days) entries, no day
\* twice, in the order in which the days first occur in the input, and they
\* are the days that occur first.
C10_FiveDaysInFirstOccurrenceOrder ==
    gpc = "shown" =>
        /\ Len(dailyForecasts) =
               IF Cardinality(DistinctDays) < 5 THEN Cardinality(DistinctDays) ELSE 5
        /\ \A k \in 1..Len(dailyForecasts) : dailyForecasts[k].day \in DistinctDays
        /\ \A j, k \in 1..Len(dailyForecasts) :
               j < k => FirstPosition(dailyForecasts[j].day) < FirstPosition(dailyForecasts[k].day)
        /\ \A day \in DistinctDays :
               (\A k \in 1..Len(dailyForecasts) : dailyForecasts[k].day # day) =>
                   \A k \in 1..Len(dailyForecasts) :
                       FirstPosition(dailyForecasts[k].day) < FirstPosition(day)
        /\ forecasts = <<>> => dailyForecasts = <<>>

\* six distinct days, not in chronological order
C10_Witness ==
    /\ gpc = "shown"
    /\ Cardinality(DistinctDays) = 6
    /\ Len(dailyForecasts) = 5
    /\ forecasts[1].datetime > forecasts[2].datetime
    /\ dailyForecasts[1].day > dailyForecasts[2].day

(***************************************************************************)
(* Two invocations of the click handlers on the one page.  The variables   *)
(* pc .. lastError are the locals of the invocation whose code runs next,  *)
(* other holds the locals of the second one; the text box, the panels and  *)
(* the displayed fields are shared.                                        *)
(***************************************************************************)
Locals ==
    [pc |-> pc, mode |-> mode, cityFormats |-> cityFormats, attempt |-> attempt,
     calls |-> calls, tried |-> tried, failLog |-> failLog, weatherData |-> weatherData,
     forecastData |-> forecastData, lastError |-> lastError]

\* the event loop turns to the other invocation: a click on searchBtn or
\* locationBtn while a handler awaits, or a response to one of its fetches
SwitchHandler ==
    /\ other' = Locals
    /\ pc' = other.pc
    /\ mode' = other.mode
    /\ cityFormats' = other.cityFormats
    /\ attempt' = other.attempt
    /\ calls' = other.calls
    /\ tried' = other.tried
    /\ failLog' = other.failLog
    /\ weatherData' = other.weatherData
    /\ forecastData' = other.forecastData
    /\ lastError' = other.lastError
    /\ UNCHANGED <<cityInput, loading, errorVisible, weatherVisible, errorMessage,
                   locationName, forecastContainer>>
    /\ UNCHANGED <<routerVars, forecastVars>>

\* an invocation that has returned and has no fetch left in flight is
\* gone: the next click starts a new one
HandlerGone ==
    /\ pc = "done"
    /\ \A n \in 1..MaxFormats, ep \in Endpoints : calls[n][ep] # "inflight"
    /\ pc' = "idle"
    /\ mode' = "none"
    /\ cityFormats' = <<>>
    /\ attempt' = 0
    /\ calls' = NoCalls
    /\ tried' = <<>>
    /\ failLog' = <<>>
    /\ weatherData' = 0
    /\ forecastData' = 0
    /\ lastError' = NoError
    /\ UNCHANGED <<cityInput, loading, errorVisible, weatherVisible, errorMessage,
                   locationName, forecastContainer, other>>
    /\ UNCHANGED <<routerVars, forecastVars>>

\* the texts in the search box of the two-invocation runs
PanelCities == {<<>>, <<"a">>, <<"a", ",", "a">>}

\* the failures of a fetch in the two-invocation runs
PanelFailClasses == {"not_found", "network"}

\* the user types a text in the search box before a click
TypeCity(city) ==
    /\ pc = "idle"
    /\ cityInput # city
    /\ cityInput' = city
    /\ UNCHANGED <<pc, mode, cityFormats, attempt, calls, tried, failLog, weatherData,
                   forecastData, lastError, loading, errorVisible, weatherVisible,
                   errorMessage, locationName, forecastContainer, other>>
    /\ UNCHANGED <<routerVars, forecastVars>>

InitPanels ==
    /\ cityInput \in PanelCities
    /\ InitClient
    /\ InitRouterIdle
    /\ InitForecastIdle

\* the explored runs overlap two handlers when each issues at most one pair
\* of fetches; a search of several candidates runs with no second handler
ShortOrAlone ==
    /\ Len(other.cityFormats) <= 1
    /\ \/ Trim(cityInput) = <<>>
       \/ Len(CityFormats(Trim(cityInput))) = 1
       \/ other.mode = "none"

NextPanels ==
    \/ (ShortOrAlone /\ SearchWeather)
    \/ (Len(other.cityFormats) <= 1 /\ GetCurrentLocation)
    \/ PositionResolved
    \/ \E code \in GeoCodes : PositionRejected(code)
    \/ \E n \in 1..MaxFormats : GetCurrentWeatherOk(n)
    \/ \E n \in 1..MaxFormats : GetForecastOk(n)
    \/ \E n \in 1..MaxFormats, class \in PanelFailClasses : GetCurrentWeatherFail(n, class)
    \/ \E n \in 1..MaxFormats, class \in PanelFailClasses : GetForecastFail(n, class)
    \/ SwitchHandler
    \/ HandlerGone
    \/ \E city \in PanelCities : TypeCity(city)

SpecPanels == InitPanels /\ [][NextPanels]_vars

Visible == {p \in {"loading", "error", "weather"} :
               \/ p = "loading" /\ loading
               \/ p = "error" /\ errorVisible
               \/ p = "weather" /\ weatherVisible}

\* C14: at most one of the loading indicator, the error panel and the
\* weather container is visible, under every interleaving of the handlers
\* and of the responses to their fetches.
C14_AtMostOnePanel ==
    /\ Cardinality(Visible) <= 1
    /\ ~(errorVisible /\ weatherVisible)
    /\ ~(loading /\ (errorVisible \/ weatherVisible))

\* a search and a location request both awaiting their fetches, the weather
\* container shown by a response of one of them
C14_Witness ==
    /\ mode = "search"
    /\ other.mode = "locate"
    /\ pc = "await"
    /\ other.pc = "await"
    /\ weatherVisible
    /\ Cardinality(Visible) = 1

(***************************************************************************)
(* Properties of searchWeather.                                            *)
(***************************************************************************)
Count(s, c) == Cardinality({i \in 1..Len(s) : s[i] = c})

C2_OtherErrorEndsResolution ==
    \A i \in 1..Len(failLog) :
        (failLog[i].class # "not_found" /\ failLog[i].attempt < Len(cityFormats)) =>
            /\ pc = "done"
            /\ lastError = failLog[i]
            /\ \A n \in 1..MaxFormats, ep \in Endpoints :
                   n > failLog[i].attempt => calls[n][ep] = "none"

\* both fetches of attempt n fulfilled
Succeeded(n) == \A ep \in Endpoints : calls[n][ep] = "ok"

Issued(n) == \E ep \in Endpoints : calls[n][ep] # "none"

\* C3: the candidates tried are a prefix of the candidate list, in its order,
\* fetches are issued for exactly these, and a candidate whose attempt
\* succeeded is the last one tried.
C3_PrefixUntilFirstSuccess ==
    mode = "search" =>
        /\ Len(tried) <= Len(cityFormats)
        /\ tried = SubSeq(cityFormats, 1, Len(tried))
        /\ \A n \in 1..MaxFormats : Issued(n) <=> n <= Len(tried)
        /\ \A n \in 1..MaxFormats :
               Succeeded(n) => /\ Len(tried) = n
                               /\ \A m \in 1..MaxFormats : m > n => ~Issued(m)

C3_Witness ==
    /\ mode = "search"
    /\ Len(cityFormats) = 3
    /\ Succeeded(2)
    /\ weatherData = 2
    /\ pc = "done"

AllNotFound(log) == \A i \in 1..Len(log) : log[i].class = "not_found"

\* C4: the step that ends a search in which every candidate failed with a
\* not-found error shows the error, leaves weatherData null, and the error it
\* throws and shows is the one of the last candidate.
C4_AllNotFoundCarriesLast ==
    [][ ( /\ mode = "search"
          /\ pc = "await"
          /\ pc' = "done"
          /\ Len(failLog') = Len(cityFormats)
          /\ AllNotFound(failLog') )
        => ( /\ errorVisible'
             /\ ~weatherVisible'
             /\ ~loading'
             /\ weatherData' = 0
             /\ forecastData' = 0
             /\ lastError' = failLog'[Len(failLog')]
             /\ lastError'.attempt = Len(cityFormats)
             /\ lastError'.class = "not_found"
             /\ errorMessage' = FetchMessage("not_found") ) ]_vars

C4_Witness ==
    /\ mode = "search"
    /\ pc = "done"
    /\ Len(cityFormats) = 3
    /\ Len(failLog) = 3
    /\ AllNotFound(failLog)
    /\ lastError.attempt = 3
    /\ errorVisible

\* C5: a fetch is in flight only for the candidate being attempted: none of
\* an earlier candidate is still in flight once a later attempt has started.
C5_StrictlySequential ==
    \A n \in 1..MaxFormats, ep \in Endpoints :
        calls[n][ep] = "inflight" => n = attempt

\* C6: when a fetch of a combined request has failed, the data of neither
\* fetch of that request is on display.
C6_NoPartialResult ==
    \A n \in 1..MaxFormats :
        (\E ep \in Endpoints : calls[n][ep] = "failed") =>
            ~(weatherVisible /\ (locationName = n \/ forecastContainer = n))

====
